---- MODULE Spec2Model ----
(***************************************************************************)
(* A model of the contact manager of src/contact_manager.py: the Contact   *)
(* record (validation, update, to_dict/from_dict) and the ContactManager   *)
(* (add/update/delete, save_contacts/load_contacts on the JSON data file). *)
(*                                                                         *)
(* A Python str is a sequence of one-character strings, so that strip(),   *)
(* lower() and the two regular expressions are computed, not assumed.      *)
(* A timestamp (datetime.now().isoformat()) is the reading of the clock.   *)
(***************************************************************************)
EXTENDS Naturals, Sequences, FiniteSets

VARIABLES
    contacts,   \* ContactManager.contacts: the list of Contact objects
    store,      \* the content of ContactManager.data_file
    clock,      \* what datetime.now() returns
    last,       \* the last call made on the manager, its arguments and outcome
    failures,   \* how many calls of save_contacts have failed so far
    rec         \* a Contact held by the caller, outside any manager

vars == <<contacts, store, clock, last, failures, rec>>

(***************************************************************************)
(* Bounds                                                                  *)
(***************************************************************************)
MaxClock == 1
MaxSaveFailures == 1

(***************************************************************************)
(* Strings                                                                 *)
(***************************************************************************)
UpperLetters ==
    <<"A","B","C","D","E","F","G","H","I","J","K","L","M",
      "N","O","P","Q","R","S","T","U","V","W","X","Y","Z">>

LowerLetters ==
    <<"a","b","c","d","e","f","g","h","i","j","k","l","m",
      "n","o","p","q","r","s","t","u","v","w","x","y","z">>

Digits == {"0","1","2","3","4","5","6","7","8","9"}

Range(s) == {s[i] : i \in DOMAIN s}

Letters == Range(UpperLetters) \cup Range(LowerLetters)

\* what str.strip() removes and what \s matches
Whitespace == {" ", "\t", "\n", "\r"}

SetMin(S) == CHOOSE x \in S : \A y \in S : x <= y

SetMax(S) == CHOOSE x \in S : \A y \in S : x >= y

\* str.lower() of one character
LowerChar(c) ==
    IF c \in Range(UpperLetters)
    THEN LowerLetters[CHOOSE i \in DOMAIN UpperLetters : UpperLetters[i] = c]
    ELSE c

\* str.lower()
lower(s) == [i \in DOMAIN s |-> LowerChar(s[i])]

\* str.strip()
strip(s) ==
    LET keep == {i \in DOMAIN s : s[i] \notin Whitespace}
    IN  IF keep = {} THEN <<>> ELSE SubSeq(s, SetMin(keep), SetMax(keep))

AllIn(s, chars) == \A i \in DOMAIN s : s[i] \in chars

\* re.match(r"^[a-zA-Z\s\-']+$", s)
NameChars == Letters \cup Whitespace \cup {"-", "'"}

MatchesNamePattern(s) ==
    LET body == IF s # <<>> /\ s[Len(s)] = "\n" THEN SubSeq(s, 1, Len(s) - 1) ELSE s
    IN  \/ s # <<>> /\ AllIn(s, NameChars)
        \/ body # <<>> /\ AllIn(body, NameChars)

\* re.match(r'^[a-zA-Z0-9._%+-]+@[a-zA-Z0-9.-]+\.[a-zA-Z]{2,}$', s)
EmailLocalChars == Letters \cup Digits \cup {".", "_", "%", "+", "-"}

EmailDomainChars == Letters \cup Digits \cup {".", "-"}

MatchesEmailExact(s) ==
    \E at \in DOMAIN s : \E dot \in DOMAIN s :
        /\ s[at] = "@"
        /\ s[dot] = "."
        /\ at > 1
        /\ dot > at + 1
        /\ Len(s) >= dot + 2
        /\ AllIn(SubSeq(s, 1, at - 1), EmailLocalChars)
        /\ AllIn(SubSeq(s, at + 1, dot - 1), EmailDomainChars)
        /\ AllIn(SubSeq(s, dot + 1, Len(s)), Letters)

MatchesEmailPattern(s) ==
    \/ MatchesEmailExact(s)
    \/ /\ s # <<>>
       /\ s[Len(s)] = "\n"
       /\ MatchesEmailExact(SubSeq(s, 1, Len(s) - 1))

\* the characters of code points 32 to 95 and of code points 97 to 126, in the
\* order of their code points (code point 96 occurs in no string of the model)
PrintableLow ==
    <<" ", "!", "\"", "#", "$", "%", "&", "'", "(", ")", "*", "+", ",", "-", ".", "/",
      "0", "1", "2", "3", "4", "5", "6", "7", "8", "9", ":", ";", "<", "=", ">", "?",
      "@", "A", "B", "C", "D", "E", "F", "G", "H", "I", "J", "K", "L", "M", "N", "O",
      "P", "Q", "R", "S", "T", "U", "V", "W", "X", "Y", "Z", "[", "\\", "]", "^", "_">>

PrintableHigh ==
    <<"a", "b", "c", "d", "e", "f", "g", "h", "i", "j", "k", "l", "m", "n", "o",
      "p", "q", "r", "s", "t", "u", "v", "w", "x", "y", "z", "{", "|", "}", "~">>

\* ord(c)
Ord(c) ==
    IF c = "\t" THEN 9
    ELSE IF c = "\n" THEN 10
    ELSE IF c = "\r" THEN 13
    ELSE IF c \in Range(PrintableLow)
    THEN 31 + (CHOOSE i \in DOMAIN PrintableLow : PrintableLow[i] = c)
    ELSE 96 + (CHOOSE i \in DOMAIN PrintableHigh : PrintableHigh[i] = c)

\* a < b for two str: the first place where they differ decides by code point,
\* and a proper prefix is the smaller
StrLess(a, b) ==
    \/ Len(a) < Len(b) /\ SubSeq(b, 1, Len(a)) = a
    \/ \E i \in DOMAIN a \cap DOMAIN b :
          /\ SubSeq(a, 1, i - 1) = SubSeq(b, 1, i - 1)
          /\ Ord(a[i]) < Ord(b[i])

\* a < b for two tuples of str of the same length
TupleLess(a, b) ==
    \E i \in DOMAIN a :
        /\ SubSeq(a, 1, i - 1) = SubSeq(b, 1, i - 1)
        /\ StrLess(a[i], b[i])

\* q in s
IsSubstring(q, s) ==
    \E i \in 0..(Len(s) - Len(q)) : SubSeq(s, i + 1, i + Len(q)) = q

(***************************************************************************)
(* Contact                                                                 *)
(***************************************************************************)
\* the keys hasattr(self, key) accepts among those given as fields: the data
\* attributes of a Contact
Attrs ==
    {"first_name", "last_name", "email", "phone", "company", "notes",
     "created_at", "updated_at"}

\* F(x) with x bound to the value of v, evaluated once
With(v, F(_)) == CHOOSE y \in {F(x) : x \in {v}} : TRUE

Raise(e) == [exc |-> e, val |-> <<>>]

Return(v) == [exc |-> "none", val |-> v]

\* Contact._validate_name
validate_name(name) ==
    IF name = <<>> \/ strip(name) = <<>>
    THEN Raise("ValueError")
    ELSE IF ~MatchesNamePattern(strip(name))
         THEN Raise("ValueError")
         ELSE Return(strip(name))

\* Contact._validate_email
validate_email(email) ==
    IF email = <<>> \/ strip(email) = <<>>
    THEN Raise("ValueError")
    ELSE IF ~MatchesEmailPattern(strip(email))
         THEN Raise("ValueError")
         ELSE Return(lower(strip(email)))

\* Contact.__init__ at clock reading now
ContactInit(first_name, last_name, email, phone, company, notes, now) ==
    LET f == validate_name(first_name)
        l == validate_name(last_name)
        e == validate_email(email)
    IN  IF f.exc # "none" THEN Raise(f.exc)
        ELSE IF l.exc # "none" THEN Raise(l.exc)
        ELSE IF e.exc # "none" THEN Raise(e.exc)
        ELSE Return([first_name |-> f.val, last_name |-> l.val, email |-> e.val,
                     phone |-> phone, company |-> company, notes |-> notes,
                     created_at |-> now, updated_at |-> now])

\* the for loop of Contact.update over kwargs.items(), a sequence of <<key, value>>;
\* obj is the object as the loop has left it, also when it raised
RECURSIVE update_loop(_, _)
update_loop(self, kwargs) ==
    IF kwargs = <<>>
    THEN [exc |-> "none", obj |-> self]
    ELSE LET key == kwargs[1][1]
             value == kwargs[1][2]
         IN  IF key \notin Attrs
             THEN update_loop(self, Tail(kwargs))
             ELSE IF key \in {"first_name", "last_name"}
             THEN With(validate_name(value), LAMBDA r :
                      IF r.exc # "none"
                      THEN [exc |-> r.exc, obj |-> self]
                      ELSE update_loop([self EXCEPT ![key] = r.val], Tail(kwargs)))
             ELSE IF key = "email"
             THEN With(validate_email(value), LAMBDA r :
                      IF r.exc # "none"
                      THEN [exc |-> r.exc, obj |-> self]
                      ELSE update_loop([self EXCEPT ![key] = r.val], Tail(kwargs)))
             ELSE update_loop([self EXCEPT ![key] = value], Tail(kwargs))

\* Contact.update at clock reading now
update(self, kwargs, now) ==
    With(update_loop(self, kwargs), LAMBDA r :
        IF r.exc # "none"
        THEN r
        ELSE [exc |-> "none", obj |-> [r.obj EXCEPT !.updated_at = now]])

\* Contact.to_dict
to_dict(self) ==
    [k \in Attrs |-> self[k]]

\* dict.get(key, default)
get(data, key, default) ==
    IF key \in DOMAIN data THEN data[key] ELSE default

\* from_dict without lines 91-92: the timestamps of the construction are kept
from_dict_fresh_timestamps(data, now) ==
    IF ~({"first_name", "last_name", "email"} \subseteq DOMAIN data)
    THEN Raise("KeyError")
    ELSE ContactInit(data["first_name"], data["last_name"], data["email"],
                     get(data, "phone", <<>>), get(data, "company", <<>>),
                     get(data, "notes", <<>>), now)

\* Contact.from_dict at clock reading now
from_dict(data, now) ==
    IF ~({"first_name", "last_name", "email"} \subseteq DOMAIN data)
    THEN Raise("KeyError")
    ELSE With(ContactInit(data["first_name"], data["last_name"], data["email"],
                          get(data, "phone", <<>>), get(data, "company", <<>>),
                          get(data, "notes", <<>>), now),
              LAMBDA c :
                 IF c.exc # "none"
                 THEN c
                 ELSE Return([c.val EXCEPT
                                !.created_at = get(data, "created_at", c.val.created_at),
                                !.updated_at = get(data, "updated_at", c.val.updated_at)]))

(***************************************************************************)
(* ContactManager                                                          *)
(***************************************************************************)
AbsentFile == [kind |-> "absent", data |-> <<>>]

CorruptFile == [kind |-> "corrupt", data |-> <<>>]

JsonFile(data) == [kind |-> "json", data |-> data]

\* what a call of save_contacts meets: the file is written, open() raises and the
\* file is left alone, or open(data_file, 'w') has truncated the file and
\* json.dump raises
SaveOutcomes == {"ok", "open_fails", "write_fails"}

\* find_by_email that lowercases its argument and does not strip it
find_by_email_unstripped(cs, email) ==
    LET key == lower(email)
        hits == {i \in DOMAIN cs : cs[i].email = key}
    IN  IF hits = {} THEN 0 ELSE SetMin(hits)

\* ContactManager.find_by_email: the index of the first match, 0 for None
find_by_email(cs, email) ==
    LET key == strip(lower(email))
        hits == {i \in DOMAIN cs : cs[i].email = key}
    IN  IF hits = {} THEN 0 ELSE SetMin(hits)

\* ContactManager.save_contacts: the file it leaves
save_contacts(cs, st, io) ==
    IF io = "ok" THEN JsonFile([i \in DOMAIN cs |-> to_dict(cs[i])])
    ELSE IF io = "open_fails" THEN st
    ELSE CorruptFile

\* the try body of ContactManager.load_contacts
load_try(st, now) ==
    IF st.kind = "absent" THEN Raise("FileNotFoundError")
    ELSE IF st.kind = "corrupt" THEN Raise("JSONDecodeError")
    ELSE With([i \in DOMAIN st.data |-> from_dict(st.data[i], now)], LAMBDA items :
             IF \E i \in DOMAIN items : items[i].exc # "none"
             THEN Raise(items[SetMin({i \in DOMAIN items : items[i].exc # "none"})].exc)
             ELSE Return([i \in DOMAIN items |-> items[i].val]))

\* load_contacts with the except clause of FileNotFoundError alone
load_contacts_no_catch_all(st, now) ==
    With(load_try(st, now), LAMBDA r :
        IF r.exc = "none" THEN [exc |-> "none", contacts |-> r.val]
        ELSE IF r.exc = "FileNotFoundError" THEN [exc |-> "none", contacts |-> <<>>]
        ELSE [exc |-> r.exc, contacts |-> <<>>])

\* ContactManager.__init__ with load_contacts and its two except clauses
load_contacts(st, now) ==
    With(load_try(st, now), LAMBDA r :
        IF r.exc = "none" THEN [exc |-> "none", contacts |-> r.val]
        ELSE IF r.exc = "FileNotFoundError" THEN [exc |-> "none", contacts |-> <<>>]
        ELSE [exc |-> "none", contacts |-> <<>>])

RemoveAt(cs, i) == SubSeq(cs, 1, i - 1) \o SubSeq(cs, i + 1, Len(cs))

\* add_contact without the lookup of the address
add_contact_unchecked(cs, st, contact, io) ==
    LET cs2 == Append(cs, contact)
    IN  [exc |-> "none", ret |-> "True", contacts |-> cs2,
         store |-> save_contacts(cs2, st, io), saves |-> 1]

\* add_contact that saves whether or not it has appended
add_contact_always_saves(cs, st, contact, io) ==
    LET cs2 == IF find_by_email(cs, contact.email) # 0 THEN cs ELSE Append(cs, contact)
    IN  [exc |-> "none", ret |-> IF cs2 = cs THEN "False" ELSE "True", contacts |-> cs2,
         store |-> save_contacts(cs2, st, io), saves |-> 1]

\* ContactManager.add_contact
add_contact(cs, st, contact, io) ==
    IF find_by_email(cs, contact.email) # 0
    THEN [exc |-> "none", ret |-> "False", contacts |-> cs, store |-> st, saves |-> 0]
    ELSE LET cs2 == Append(cs, contact)
         IN  [exc |-> "none", ret |-> "True", contacts |-> cs2,
              store |-> save_contacts(cs2, st, io), saves |-> 1]

\* update_contact that saves before it updates the record
update_contact_saves_first(cs, st, email, kwargs, now, io) ==
    IF \E k \in DOMAIN kwargs : kwargs[k][1] = "email"
    THEN [exc |-> "TypeError", ret |-> "None", contacts |-> cs, store |-> st, saves |-> 0]
    ELSE LET i == find_by_email(cs, email)
         IN  IF i # 0
             THEN With(update(cs[i], kwargs, now), LAMBDA r :
                  LET cs2 == [cs EXCEPT ![i] = r.obj]
                  IN  IF r.exc # "none"
                      THEN [exc |-> r.exc, ret |-> "None", contacts |-> cs2,
                            store |-> save_contacts(cs, st, io), saves |-> 1]
                      ELSE [exc |-> "none", ret |-> "True", contacts |-> cs2,
                            store |-> save_contacts(cs, st, io), saves |-> 1])
             ELSE [exc |-> "none", ret |-> "False", contacts |-> cs, store |-> st,
                   saves |-> 0]

\* ContactManager.update_contact(email, **kwargs); a keyword named like the
\* positional parameter email cannot be bound: the call raises TypeError
update_contact(cs, st, email, kwargs, now, io) ==
    IF \E k \in DOMAIN kwargs : kwargs[k][1] = "email"
    THEN [exc |-> "TypeError", ret |-> "None", contacts |-> cs, store |-> st, saves |-> 0]
    ELSE LET i == find_by_email(cs, email)
         IN  IF i # 0
             THEN With(update(cs[i], kwargs, now), LAMBDA r :
                  LET cs2 == [cs EXCEPT ![i] = r.obj]
                  IN  IF r.exc # "none"
                      THEN [exc |-> r.exc, ret |-> "None", contacts |-> cs2,
                            store |-> st, saves |-> 0]
                      ELSE [exc |-> "none", ret |-> "True", contacts |-> cs2,
                            store |-> save_contacts(cs2, st, io), saves |-> 1])
             ELSE [exc |-> "none", ret |-> "False", contacts |-> cs, store |-> st,
                   saves |-> 0]

\* delete_contact that removes the last record of the list
delete_contact_pops_last(cs, st, email, io) ==
    LET i == find_by_email(cs, email)
    IN  IF i # 0
        THEN LET cs2 == SubSeq(cs, 1, Len(cs) - 1)
             IN  [exc |-> "none", ret |-> "True", contacts |-> cs2,
                  store |-> save_contacts(cs2, st, io), saves |-> 1]
        ELSE [exc |-> "none", ret |-> "False", contacts |-> cs, store |-> st,
              saves |-> 0]

\* ContactManager.delete_contact
delete_contact(cs, st, email, io) ==
    LET i == find_by_email(cs, email)
    IN  IF i # 0
        THEN LET cs2 == RemoveAt(cs, i)
             IN  [exc |-> "none", ret |-> "True", contacts |-> cs2,
                  store |-> save_contacts(cs2, st, io), saves |-> 1]
        ELSE [exc |-> "none", ret |-> "False", contacts |-> cs, store |-> st,
              saves |-> 0]

\* search_contacts by name or email, as its docstring has it: the company is
\* not looked at
search_contacts_without_company(cs, st, query) ==
    LET q == strip(lower(query))
        Matches(contact) ==
            \/ IsSubstring(q, lower(contact.first_name))
            \/ IsSubstring(q, lower(contact.last_name))
            \/ IsSubstring(q, lower(contact.email))
    IN  [exc |-> "none", ret |-> SelectSeq(cs, Matches), contacts |-> cs,
         store |-> st, saves |-> 0]

\* ContactManager.search_contacts
search_contacts(cs, st, query) ==
    LET q == strip(lower(query))
        Matches(contact) ==
            \/ IsSubstring(q, lower(contact.first_name))
            \/ IsSubstring(q, lower(contact.last_name))
            \/ IsSubstring(q, lower(contact.email))
            \/ IsSubstring(q, lower(contact.company))
    IN  [exc |-> "none", ret |-> SelectSeq(cs, Matches), contacts |-> cs,
         store |-> st, saves |-> 0]

\* list.insert of x behind the items that do not compare greater than it
InsertSorted(items, x) ==
    LET greater == {i \in DOMAIN items : TupleLess(x.key, items[i].key)}
        at == IF greater = {} THEN Len(items) + 1 ELSE SetMin(greater)
    IN  SubSeq(items, 1, at - 1) \o <<x>> \o SubSeq(items, at, Len(items))

\* sorted() of a list of [key, value] items: ascending by key, items of equal
\* keys in the order they had (the sort is stable)
RECURSIVE sorted(_)
sorted(items) ==
    IF items = <<>>
    THEN <<>>
    ELSE InsertSorted(sorted(SubSeq(items, 1, Len(items) - 1)), items[Len(items)])

\* sorted(self.contacts, key=lambda c: (c.last_name, c.first_name))
sorted_contacts(cs) ==
    With(sorted([i \in DOMAIN cs |->
                    [key |-> <<cs[i].last_name, cs[i].first_name>>, value |-> cs[i]]]),
         LAMBDA items : [i \in DOMAIN items |-> items[i].value])

\* get_all_contacts as self.contacts.sort(key=...) followed by return self.contacts
get_all_contacts_sorts_in_place(cs, st) ==
    [exc |-> "none", ret |-> sorted_contacts(cs), shared |-> TRUE,
     contacts |-> sorted_contacts(cs), store |-> st, saves |-> 0]

\* ContactManager.get_all_contacts; shared tells whether the list returned is
\* the list self.contacts itself
get_all_contacts(cs, st) ==
    [exc |-> "none", ret |-> sorted_contacts(cs), shared |-> FALSE, contacts |-> cs,
     store |-> st, saves |-> 0]

\* sorted(list(companies)) of a set of str
RECURSIVE sorted_set(_)
sorted_set(S) ==
    IF S = {}
    THEN <<>>
    ELSE With(CHOOSE x \in S : \A y \in S : x = y \/ StrLess(x, y),
              LAMBDA m : <<m>> \o sorted_set(S \ {m}))

\* get_stats without the filter "if c.company"
get_stats_counts_empty(cs, st) ==
    LET total == Len(cs)
        companies == {cs[i].company : i \in DOMAIN cs}
    IN  [exc |-> "none",
         ret |-> [total_contacts |-> total,
                  unique_companies |-> Cardinality(companies),
                  companies |-> sorted_set(companies)],
         contacts |-> cs, store |-> st, saves |-> 0]

\* ContactManager.get_stats
get_stats(cs, st) ==
    LET total == Len(cs)
        companies == {cs[i].company : i \in {j \in DOMAIN cs : cs[j].company # <<>>}}
    IN  [exc |-> "none",
         ret |-> [total_contacts |-> total,
                  unique_companies |-> Cardinality(companies),
                  companies |-> sorted_set(companies)],
         contacts |-> cs, store |-> st, saves |-> 0]

(***************************************************************************)
(* Inputs                                                                  *)
(***************************************************************************)
sEmpty == <<>>
sAl == <<"A", "l">>
sBo == <<"B", "o">>
sBoPadded == <<" ", "B", "o", " ">>
sJ1 == <<"J", "1">>
sDoe == <<"D", "o", "e">>
s5 == <<"5">>
sX == <<"x">>
\* a name with a tab inside, as a terminal or a pasted cell delivers it
sATabL == <<"A", "\t", "l">>
eA == <<"a", "@", "b", ".", "c", "c">>
eAUpper == <<"A", "@", "B", ".", "C", "C">>
eC == <<"c", "@", "d", ".", "e", "e">>
eCPadded == <<" ", "C", "@", "d", ".", "e", "e", " ">>
eAbsent == <<"x", "@", "y", ".", "z", "z">>
eBad == <<"b", "a", "d">>

FirstNameInputs == {sAl, sJ1}
LastNameInputs == {sDoe}
EmailInputs == {eAUpper, eBad}
PhoneInputs == {sEmpty}
DeleteInputs == {eAUpper, eCPadded, eAbsent}
UpdateInputs == {eAUpper, eAbsent}

\* the keyword arguments of an update, <<key, value>> items in the order the
\* caller wrote them, no key twice: each item alone, and the pairs that put a
\* valid name, an invalid name and a verbatim field in either order
UpdateItems ==
    {<<"first_name", sBoPadded>>, <<"last_name", sJ1>>, <<"email", eCPadded>>,
     <<"phone", s5>>, <<"phone", sEmpty>>}

PairedItems == {<<"first_name", sBoPadded>>, <<"last_name", sJ1>>, <<"phone", s5>>}

DistinctKeys(kwargs) ==
    \A i \in DOMAIN kwargs : \A j \in DOMAIN kwargs : i # j => kwargs[i][1] # kwargs[j][1]

KwargsInputs ==
    {kw \in {<<a>> : a \in UpdateItems} \cup (PairedItems \X PairedItems) :
        DistinctKeys(kw)}

dictA ==
    [first_name |-> sAl, last_name |-> sDoe, email |-> eA, phone |-> s5,
     company |-> sEmpty, notes |-> sEmpty, created_at |-> 0, updated_at |-> 0]

dictC ==
    [first_name |-> sBo, last_name |-> sDoe, email |-> eC, phone |-> sEmpty,
     company |-> sEmpty, notes |-> sEmpty, created_at |-> 0, updated_at |-> 0]

\* a stored record without the optional keys and with an address not yet normalized
dictSparse == [first_name |-> sBoPadded, last_name |-> sDoe, email |-> eAUpper]

dictNoEmail == [first_name |-> sAl, last_name |-> sDoe]

dictBadName == [dictA EXCEPT !.first_name = sJ1]

\* the data file a manager may be constructed on
InitialStores ==
    {AbsentFile, CorruptFile, JsonFile(<<>>), JsonFile(<<dictC>>),
     JsonFile(<<dictA, dictC>>), JsonFile(<<dictSparse>>),
     JsonFile(<<dictA, dictNoEmail>>), JsonFile(<<dictC, dictBadName>>)}

(***************************************************************************)
(* The state machine: the caller makes one call on the manager, looks at   *)
(* its outcome (last) and goes on to the next call.                        *)
(***************************************************************************)
NoRecord == <<>>

NoCall ==
    [op |-> "none", key |-> <<>>, fields |-> <<>>, ret |-> "None", exc |-> "none",
     saves |-> 0, io |-> "none", prevContacts |-> <<>>, prevStore |-> AbsentFile,
     prevRec |-> NoRecord, out |-> <<>>]

Called(op, key, fields, r, io) ==
    [op |-> op, key |-> key, fields |-> fields,
     ret |-> r.ret, exc |-> r.exc, saves |-> r.saves,
     io |-> IF r.saves = 0 THEN "none" ELSE io,
     prevContacts |-> contacts, prevStore |-> store, prevRec |-> NoRecord,
     out |-> <<>>]

\* the outcomes of the file system a call can meet: they differ only if it saves
IoChoices(saves) ==
    IF saves /\ failures < MaxSaveFailures THEN SaveOutcomes ELSE {"ok"}

Failed(r, io) ==
    IF r.saves > 0 /\ io # "ok" THEN failures + 1 ELSE failures

Constructed(r) ==
    [exc |-> r.exc, ret |-> "None", contacts |-> r.contacts, store |-> store,
     saves |-> 0]

Init ==
    /\ clock = 0
    /\ failures = 0
    /\ rec = NoRecord
    /\ store \in InitialStores
    /\ \E r \in {load_contacts(store, clock)} :
         /\ contacts = r.contacts
         /\ last = [Called("init", <<>>, <<>>, Constructed(r), "ok")
                      EXCEPT !.prevContacts = <<>>]

\* time passes between two calls
Tick ==
    /\ last.op = "none"
    /\ clock < MaxClock
    /\ clock' = clock + 1
    /\ UNCHANGED <<contacts, store, last, failures, rec>>

\* the caller has seen the outcome of its call
Continue ==
    /\ last.op # "none"
    /\ last' = NoCall
    /\ UNCHANGED <<contacts, store, clock, failures, rec>>

\* a new ContactManager on the same data file
Initialize ==
    /\ last.op = "none"
    /\ \E r \in {load_contacts(store, clock)} :
         /\ contacts' = r.contacts
         /\ last' = Called("init", <<>>, <<>>, Constructed(r), "ok")
    /\ UNCHANGED <<store, clock, failures, rec>>

\* Contact(...) then add_contact
Add ==
    /\ last.op = "none"
    /\ \E fn \in FirstNameInputs, ln \in LastNameInputs, em \in EmailInputs,
          ph \in PhoneInputs :
         \E c \in {ContactInit(fn, ln, em, ph, sEmpty, sEmpty, clock)} :
           \E io \in IoChoices(c.exc = "none") :
             \E r \in {IF c.exc # "none"
                        THEN [exc |-> c.exc, ret |-> "None", contacts |-> contacts,
                              store |-> store, saves |-> 0]
                        ELSE add_contact(contacts, store, c.val, io)} :
                   /\ contacts' = r.contacts
                   /\ store' = r.store
                   /\ last' = Called("add", em, <<>>, r, io)
                   /\ failures' = Failed(r, io)
    /\ UNCHANGED <<clock, rec>>

UpdateByEmail ==
    /\ last.op = "none"
    /\ \E email \in UpdateInputs, kwargs \in KwargsInputs :
         \E io \in IoChoices(find_by_email(contacts, email) # 0) :
           \E r \in {update_contact(contacts, store, email, kwargs, clock, io)} :
               /\ contacts' = r.contacts
               /\ store' = r.store
               /\ last' = Called("update", email, kwargs, r, io)
               /\ failures' = Failed(r, io)
    /\ UNCHANGED <<clock, rec>>

DeleteByEmail ==
    /\ last.op = "none"
    /\ \E email \in DeleteInputs :
         \E io \in IoChoices(find_by_email(contacts, email) # 0) :
           \E r \in {delete_contact(contacts, store, email, io)} :
               /\ contacts' = r.contacts
               /\ store' = r.store
               /\ last' = Called("delete", email, <<>>, r, io)
               /\ failures' = Failed(r, io)
    /\ UNCHANGED <<clock, rec>>

Next ==
    \/ Tick
    \/ Continue
    \/ Initialize
    \/ Add
    \/ UpdateByEmail
    \/ DeleteByEmail

Spec == Init /\ [][Next]_vars

(***************************************************************************)
(* A Contact on its own: constructed, then updated by its holder           *)
(***************************************************************************)
RecordItems ==
    {<<"first_name", sBoPadded>>, <<"first_name", sJ1>>, <<"last_name", sEmpty>>,
     <<"email", eCPadded>>, <<"email", eBad>>, <<"phone", s5>>, <<"notes", sX>>,
     <<"nickname", sX>>}

RecordKwargsInputs ==
    {kw \in {<<a>> : a \in RecordItems} \cup (RecordItems \X RecordItems) :
        DistinctKeys(kw)}

InitRecord ==
    /\ clock = 0
    /\ failures = 0
    /\ contacts = <<>>
    /\ store = AbsentFile
    /\ \E fn \in {sAl, sBoPadded, sATabL}, em \in {eAUpper, eCPadded},
          ph \in {sEmpty, s5} :
         rec = ContactInit(fn, sDoe, em, ph, sEmpty, sEmpty, clock).val
    /\ last = [NoCall EXCEPT !.op = "construct"]

\* contact.update(**kwargs)
RecordUpdate ==
    /\ \E kwargs \in RecordKwargsInputs :
         \E r \in {update(rec, kwargs, clock)} :
             /\ rec' = r.obj
             /\ last' = [NoCall EXCEPT !.op = "record_update", !.fields = kwargs,
                                       !.exc = r.exc, !.prevRec = rec]
    /\ UNCHANGED <<contacts, store, clock, failures>>

\* what the holder deserializes: the serialization of its record, and stored
\* records with or without the optional keys
RecordDicts == {to_dict(rec), dictA, dictSparse, dictNoEmail, dictBadName}

\* Contact.from_dict(data), the result replacing the record held
RecordFromDict ==
    /\ \E data \in RecordDicts :
         \E r \in {from_dict(data, clock)} :
             /\ rec' = IF r.exc = "none" THEN r.val ELSE rec
             /\ last' = [NoCall EXCEPT !.op = "from_dict", !.exc = r.exc,
                                       !.prevRec = rec]
    /\ UNCHANGED <<contacts, store, clock, failures>>

RecordTick ==
    /\ clock < MaxClock
    /\ clock' = clock + 1
    /\ UNCHANGED <<contacts, store, last, failures, rec>>

NextRecord ==
    \/ RecordUpdate
    \/ RecordFromDict
    \/ RecordTick

SpecRecord == InitRecord /\ [][NextRecord]_vars

(***************************************************************************)
(* The queries of the manager, on collections that differ in names, in     *)
(* case and in companies                                                   *)
(***************************************************************************)
sRoe == <<"R", "o", "e">>
sLowerAl == <<"a", "l">>
sLowerDoe == <<"d", "o", "e">>
sTc == <<"T", "c">>
sLowerAb == <<"a", "b">>
sSpaces == <<" ", " ">>
sTcPadded == <<" ", "T", "C", " ">>
sOe == <<"o", "e">>
sQ == <<"q">>
eZ == <<"z", "@", "a", "b", ".", "c", "c">>
eBoTc == <<"b", "o", "@", "t", "c", ".", "e", "e">>
ePrefix == <<"a", "@", "b", ".", "c">>
eATabbed == <<"\t", "a", "@", "B", ".", "c", "c", "\n">>

\* the arguments <<first_name, last_name, email, company>> of the contacts added
QueryContacts ==
    {<<sBo, sRoe, eAUpper, sTc>>, <<sLowerAl, sLowerDoe, eZ, sLowerAb>>,
     <<sAl, sRoe, eBoTc, sTc>>, <<sAl, sDoe, eCPadded, sEmpty>>}

SearchInputs == {sEmpty, sSpaces, sTcPadded, sOe, sQ}

FindInputs == {eAUpper, eCPadded, eATabbed, ePrefix, sEmpty}

\* the outcome of a query
Queried(op, key, r, out) ==
    [NoCall EXCEPT !.op = op, !.key = key, !.exc = r.exc, !.saves = r.saves,
                   !.out = out, !.prevContacts = contacts, !.prevStore = store]

InitQuery ==
    /\ clock = 0
    /\ failures = 0
    /\ rec = NoRecord
    /\ store \in {AbsentFile, JsonFile(<<dictC>>)}
    /\ contacts = load_contacts(store, clock).contacts
    /\ last = NoCall

\* Contact(...) then add_contact, the save succeeding
QueryAdd ==
    /\ last.op = "none"
    /\ \E a \in QueryContacts :
         \E c \in {ContactInit(a[1], a[2], a[3], sEmpty, a[4], sEmpty, clock)} :
           \E r \in {add_contact(contacts, store, c.val, "ok")} :
               /\ contacts' = r.contacts
               /\ store' = r.store
               /\ last' = Called("add", a[3], <<>>, r, "ok")
    /\ UNCHANGED <<clock, failures, rec>>

Search ==
    /\ last.op = "none"
    /\ \E query \in SearchInputs :
         \E r \in {search_contacts(contacts, store, query)} :
             /\ contacts' = r.contacts
             /\ store' = r.store
             /\ last' = Queried("search", query, r, r.ret)
    /\ UNCHANGED <<clock, failures, rec>>

FindByEmail ==
    /\ last.op = "none"
    /\ \E email \in FindInputs :
         \E i \in {find_by_email(contacts, email)} :
             last' = Queried("find", email, [exc |-> "none", saves |-> 0],
                             IF i = 0 THEN NoRecord ELSE contacts[i])
    /\ UNCHANGED <<contacts, store, clock, failures, rec>>

GetAll ==
    /\ last.op = "none"
    /\ \E r \in {get_all_contacts(contacts, store)} :
         /\ contacts' = r.contacts
         /\ store' = r.store
         /\ last' = Queried("get_all", <<>>, r, [list |-> r.ret, shared |-> r.shared])
    /\ UNCHANGED <<clock, failures, rec>>

\* the caller empties the list get_all_contacts gave it
ClearResult ==
    /\ last.op = "get_all"
    /\ contacts' = IF last.out.shared THEN <<>> ELSE contacts
    /\ last' = [last EXCEPT !.op = "get_all_cleared", !.out = <<>>]
    /\ UNCHANGED <<store, clock, failures, rec>>

Stats ==
    /\ last.op = "none"
    /\ \E r \in {get_stats(contacts, store)} :
         /\ contacts' = r.contacts
         /\ store' = r.store
         /\ last' = Queried("stats", <<>>, r, r.ret)
    /\ UNCHANGED <<clock, failures, rec>>

NextQuery ==
    \/ Continue
    \/ QueryAdd
    \/ Search
    \/ FindByEmail
    \/ GetAll
    \/ ClearResult
    \/ Stats

SpecQuery == InitQuery /\ [][NextQuery]_vars

(***************************************************************************)
(* Properties                                                              *)
(***************************************************************************)
prev == last.prevContacts

\* the normalized (trimmed, lowercased) form of an address
Normalized(email) == lower(strip(email))

\* the places of the collection before the call that hold the address of the call
Hits == {i \in DOMAIN prev : Normalized(prev[i].email) = Normalized(last.key)}

HasKey(kwargs, key) == \E k \in DOMAIN kwargs : kwargs[k][1] = key

ValueOf(kwargs, key) == kwargs[CHOOSE k \in DOMAIN kwargs : kwargs[k][1] = key][2]

ValidName(s) == strip(s) # <<>> /\ AllIn(strip(s), NameChars)

ValidEmail(s) == MatchesEmailExact(strip(s))

\* an item of an update that touches a name or the address with a value that
\* fails validation
InvalidItem(item) ==
    \/ item[1] \in {"first_name", "last_name"} /\ ~ValidName(item[2])
    \/ item[1] = "email" /\ ~ValidEmail(item[2])

SomeInvalid(kwargs) == \E k \in DOMAIN kwargs : InvalidItem(kwargs[k])

\* the file holds the serialization of the collection cs, record for record
Holds(st, cs) ==
    /\ st.kind = "json"
    /\ Len(st.data) = Len(cs)
    /\ \A i \in DOMAIN cs :
        /\ DOMAIN st.data[i] = Attrs
        /\ \A k \in Attrs : st.data[i][k] = cs[i][k]

\* C1: no two records of the collection have the same normalized email, after
\* any sequence of Add, UpdateByEmail and DeleteByEmail, whether the saves
\* succeed or fail, updates that name a new email included.
C1_UniqueEmails ==
    \A i \in DOMAIN contacts : \A j \in DOMAIN contacts :
        i # j => Normalized(contacts[i].email) # Normalized(contacts[j].email)

\* an update naming a new email, that of the other record, has been called on a
\* collection of two records
C1_Witness ==
    /\ last.op = "update"
    /\ HasKey(last.fields, "email")
    /\ Len(contacts) = 2
    /\ Hits # {}
    /\ \E i \in DOMAIN prev :
        i \notin Hits /\ prev[i].email = Normalized(ValueOf(last.fields, "email"))

\* C2: Add of a record whose email, compared case-insensitively, is already in
\* the collection returns false, leaves the collection as it was and does not save.
C2_AddDuplicateRejected ==
    (last.op = "add" /\ last.exc = "none" /\ Hits # {}) =>
        /\ last.ret = "False"
        /\ contacts = prev
        /\ last.saves = 0
        /\ store = last.prevStore

\* a record was offered whose address differs in case from the stored one
C2_Witness ==
    /\ last.op = "add"
    /\ last.ret = "False"
    /\ Hits # {}
    /\ \A i \in Hits : prev[i].email # last.key

\* C3: Record.Update with a touched first_name/last_name/email that fails
\* validation fails with a validation error and leaves every field of the record
\* as it was, whatever the order of the fields.
C3_UpdateAtomic ==
    (last.op = "record_update" /\ SomeInvalid(last.fields)) =>
        /\ last.exc = "ValueError"
        /\ rec = last.prevRec

\* C4: UpdateByEmail for an existing email with a field that fails validation
\* raises, performs no save and leaves the collection and the store as they were.
C4_FailedUpdateMutatesNothing ==
    (last.op = "update" /\ Hits # {} /\ SomeInvalid(last.fields)) =>
        /\ last.exc # "none"
        /\ last.saves = 0
        /\ contacts = prev
        /\ store = last.prevStore

\* the mutation a call that returned true has made is in the collection
MutationKept ==
    IF last.op = "add"
    THEN /\ Len(contacts) = Len(prev) + 1
         /\ SubSeq(contacts, 1, Len(prev)) = prev
         /\ contacts[Len(contacts)].email = Normalized(last.key)
    ELSE IF last.op = "delete"
    THEN /\ Len(contacts) = Len(prev) - 1
         /\ \A i \in DOMAIN contacts : contacts[i].email # Normalized(last.key)
    ELSE /\ Len(contacts) = Len(prev)
         /\ \E i \in Hits :
             /\ contacts[i].updated_at = clock
             /\ \A k \in DOMAIN last.fields :
                 last.fields[k][1] = "phone" => contacts[i].phone = last.fields[k][2]

\* C5: when the save of an Add, UpdateByEmail or DeleteByEmail fails, the call
\* still returns true without raising, the collection keeps the mutation and the
\* persisted store keeps its previous content.
C5_SaveFailureLeavesStore ==
    (last.op \in {"add", "update", "delete"} /\ last.saves > 0 /\ last.io # "ok") =>
        /\ last.ret = "True"
        /\ last.exc = "none"
        /\ MutationKept
        /\ store = last.prevStore

\* C6: after an Add, UpdateByEmail or DeleteByEmail that returned true and whose
\* save succeeded, the store holds the serialization of the whole collection as
\* it is now, and the call has saved exactly once.
C6_PersistedAfterMutation ==
    (last.op \in {"add", "update", "delete"} /\ last.ret = "True" /\ last.io = "ok") =>
        /\ Holds(store, contacts)
        /\ last.saves = 1

\* an update of one of two records was saved over a store that held something else
C6_Witness ==
    /\ last.op = "update"
    /\ last.ret = "True"
    /\ last.io = "ok"
    /\ Len(contacts) = 2
    /\ contacts # prev
    /\ ~Holds(last.prevStore, prev)

\* C7: saving a collection reached through Add, UpdateByEmail and DeleteByEmail
\* and constructing a manager on the store gives the same records with the same
\* field values, the timestamps included.
C7_SaveLoadIdentity ==
    /\ load_contacts(save_contacts(contacts, store, "ok"), clock).contacts = contacts
    /\ (last.op = "init" /\ Holds(last.prevStore, prev)) => contacts = prev

\* a manager was constructed on the store of a saved collection of two records,
\* later than their timestamps
C7_Witness ==
    /\ last.op = "init"
    /\ Holds(last.prevStore, prev)
    /\ Len(prev) = 2
    /\ contacts = prev
    /\ \E i \in DOMAIN prev : prev[i].updated_at < clock

Fields == {"first_name", "last_name", "email", "phone", "company", "notes"}

\* what a field named in an update is set to
Validated(key, value) ==
    IF key \in {"first_name", "last_name"} THEN strip(value)
    ELSE IF key = "email" THEN Normalized(value)
    ELSE value

\* C9: UpdateByEmail for an email no record has returns false, changes nothing
\* and does not save; for an email a record has and fields whose touched name and
\* email values are valid, it sets the named fields of that record (names and
\* email validated and normalized, phone, company and notes verbatim), changes no
\* other field, no other record and not the size, saves and returns true.
C9_UpdateFrame ==
    last.op = "update" =>
        IF Hits = {}
        THEN /\ last.ret = "False"
             /\ last.saves = 0
             /\ contacts = prev
             /\ store = last.prevStore
        ELSE ~SomeInvalid(last.fields) =>
             /\ last.ret = "True"
             /\ last.saves = 1
             /\ Len(contacts) = Len(prev)
             /\ \E i \in Hits :
                 /\ \A j \in DOMAIN prev : j # i => contacts[j] = prev[j]
                 /\ contacts[i].created_at = prev[i].created_at
                 /\ \A f \in Fields :
                     contacts[i][f] = IF HasKey(last.fields, f)
                                      THEN Validated(f, ValueOf(last.fields, f))
                                      ELSE prev[i][f]

\* the records of a file that deserialize
Deserializes(d) ==
    /\ {"first_name", "last_name", "email"} \subseteq DOMAIN d
    /\ ValidName(d["first_name"])
    /\ ValidName(d["last_name"])
    /\ ValidEmail(d["email"])

\* C10: constructing a manager never raises: with no data file, an unreadable
\* one or a stored record that fails validation or lacks a required field the
\* collection is empty, and with valid data it holds every loaded record.
C10_InitializeNeverFails ==
    last.op = "init" =>
        /\ last.exc = "none"
        /\ store = last.prevStore
        /\ IF /\ store.kind = "json"
              /\ \A i \in DOMAIN store.data : Deserializes(store.data[i])
           THEN /\ Len(contacts) = Len(store.data)
                /\ \A i \in DOMAIN contacts :
                    /\ contacts[i].first_name = strip(store.data[i]["first_name"])
                    /\ contacts[i].last_name = strip(store.data[i]["last_name"])
                    /\ contacts[i].email = Normalized(store.data[i]["email"])
                    /\ \A k \in {"phone", "company", "notes"} :
                        contacts[i][k] = get(store.data[i], k, <<>>)
                    /\ \A k \in {"created_at", "updated_at"} :
                        contacts[i][k] = get(store.data[i], k, clock)
           ELSE contacts = <<>>

\* a manager was constructed on a file a failed write had left truncated, and
\* lost the records the previous manager held
C10_Witness ==
    /\ last.op = "init"
    /\ store.kind = "corrupt"
    /\ prev # <<>>
    /\ contacts = <<>>

\* the invariants of a Record: names non-empty, trimmed, of letters, spaces,
\* hyphens and apostrophes; address trimmed, lowercase, matching the pattern;
\* created_at no later than updated_at
SpecNameChars == Letters \cup {" ", "-", "'"}

NameInvariant(s) ==
    /\ s # <<>>
    /\ strip(s) = s
    /\ AllIn(s, SpecNameChars)

RecordInvariant(r) ==
    /\ NameInvariant(r.first_name)
    /\ NameInvariant(r.last_name)
    /\ r.email # <<>>
    /\ Normalized(r.email) = r.email
    /\ MatchesEmailExact(r.email)
    /\ r.created_at <= r.updated_at

\* C11: every Record that exists, constructed, changed by successful updates or
\* deserialized, satisfies the Record invariants: names non-empty, trimmed and of
\* letters, spaces, hyphens and apostrophes only; email non-empty, trimmed,
\* lowercase and matching the address pattern; created_at <= updated_at.
C11_RecordInvariants ==
    rec # NoRecord => RecordInvariant(rec)

\* C11 for the names that hold no whitespace other than the space
C11_ProbeSpacesOnly ==
    (rec # NoRecord /\ \A k \in {"first_name", "last_name"} :
                         \A i \in DOMAIN rec[k] : rec[k][i] \notin Whitespace \ {" "})
        => RecordInvariant(rec)

\* the query q is a substring of one of the four fields searched, lowercased
Found(q, r) ==
    \E k \in {"first_name", "last_name", "email", "company"} :
        IsSubstring(q, lower(r[k]))

\* the records of cs at the places I, in the order of cs
Pick(cs, I) ==
    [k \in 1..Cardinality(I) |->
        cs[CHOOSE i \in I : Cardinality({j \in I : j <= i}) = k]]

\* a search for q answers with the records of the collection that q is found in,
\* all of them for the empty query, and changes and saves nothing
SearchAnswers(q) ==
    /\ last.out = Pick(prev, {i \in DOMAIN prev : Found(q, prev[i])})
    /\ (last.key = <<>> /\ prev # <<>>) => last.out = prev
    /\ contacts = prev
    /\ store = last.prevStore
    /\ last.saves = 0

\* C12 as stated: Search returns, in collection order, exactly the records for
\* which the lowercased query, whitespace and all, is a substring of the
\* lowercased first_name, last_name, email or company; Search("") returns all
\* records; Search changes nothing and does not save.
C12_SearchUntrimmed ==
    last.op = "search" => SearchAnswers(lower(last.key))

\* C12 amended: Search returns, in collection order, exactly the records for
\* which the trimmed, lowercased query is a substring of the lowercased
\* first_name, last_name, email or company, so that a query of whitespace alone
\* returns all records as Search("") does; Search changes nothing and does not
\* save.
C12_SearchTrimmed ==
    last.op = "search" => SearchAnswers(lower(strip(last.key)))

\* a padded query in capitals found two records by their company, not the first
\* of the collection nor all of it
C12_Witness ==
    /\ last.op = "search"
    /\ last.key = sTcPadded
    /\ Len(prev) >= 3
    /\ Len(last.out) = 2
    /\ last.out[1] # prev[1]
    /\ \A k \in DOMAIN last.out : last.out[k].company = sTc

\* C13: FindByEmail returns the record whose stored email equals the trimmed,
\* lowercased argument if the collection has one, and the not-found sentinel
\* otherwise, never on a partial match, and changes nothing.
C13_FindExact ==
    last.op = "find" =>
        /\ IF \E i \in DOMAIN prev : prev[i].email = Normalized(last.key)
           THEN /\ last.out # NoRecord
                /\ last.out \in Range(prev)
                /\ last.out.email = Normalized(last.key)
           ELSE last.out = NoRecord
        /\ contacts = prev
        /\ store = last.prevStore
        /\ last.saves = 0

\* an argument padded with a tab and a newline and in another case found its
\* record among several
C13_Witness ==
    /\ last.op = "find"
    /\ last.key = eATabbed
    /\ Len(prev) >= 3
    /\ last.out # NoRecord
    /\ last.out.email = eA
    /\ last.out # prev[1]

\* a before b by (last_name, first_name), strings compared by code point
NameKeyLess(a, b) ==
    \/ StrLess(a.last_name, b.last_name)
    \/ a.last_name = b.last_name /\ StrLess(a.first_name, b.first_name)

\* C14: GetAll returns every record of the collection exactly once, ascending by
\* (last_name, first_name) compared lexicographically and case-sensitively, in a
\* fresh sequence: the collection keeps its order and content, also when the
\* caller changes the sequence returned.
C14_GetAllSorted ==
    /\ last.op = "get_all" =>
        /\ Len(last.out.list) = Len(prev)
        /\ \A i \in DOMAIN prev :
            Cardinality({k \in DOMAIN last.out.list : last.out.list[k] = prev[i]}) = 1
        /\ \A i \in DOMAIN last.out.list : \A j \in DOMAIN last.out.list :
            i < j => ~NameKeyLess(last.out.list[j], last.out.list[i])
        /\ ~last.out.shared
        /\ contacts = prev
        /\ store = last.prevStore
        /\ last.saves = 0
    /\ last.op = "get_all_cleared" => contacts = prev

\* four records out of order were returned in order, Roe before doe and Al Roe
\* before Bo Roe
C14_Witness ==
    /\ last.op = "get_all"
    /\ Len(prev) = 4
    /\ last.out.list # prev
    /\ \E i \in DOMAIN last.out.list :
        /\ i + 2 \in DOMAIN last.out.list
        /\ last.out.list[i].last_name = sRoe /\ last.out.list[i].first_name = sAl
        /\ last.out.list[i + 1].last_name = sRoe /\ last.out.list[i + 1].first_name = sBo
        /\ last.out.list[i + 2].last_name = sLowerDoe

\* the company values of the collection that are not empty
Companies == {prev[i].company : i \in DOMAIN prev} \ {<<>>}

\* Stats counts every record and lists each non-empty company once
StatsCounts ==
    /\ last.out.total_contacts = Len(prev)
    /\ Range(last.out.companies) = Companies
    /\ Len(last.out.companies) = Cardinality(Companies)
    /\ last.out.unique_companies = Len(last.out.companies)
    /\ contacts = prev

\* a before b in the alphabet, whatever the case of their letters
AlphabetLess(a, b) == StrLess(lower(a), lower(b))

\* C15 as stated: Stats returns total_contacts equal to the number of records,
\* companies equal to the alphabetically sorted list of the distinct non-empty
\* company values and unique_companies equal to its length; records with an
\* empty company count towards total_contacts only.
C15_StatsAlphabetical ==
    last.op = "stats" =>
        /\ StatsCounts
        /\ \A i \in DOMAIN last.out.companies : \A j \in DOMAIN last.out.companies :
            i < j => ~AlphabetLess(last.out.companies[j], last.out.companies[i])

\* C15 amended: as stated, the list of companies being sorted ascending by code
\* point, case-sensitively, so that a company in capitals comes before one in
\* small letters.
C15_StatsByCodePoint ==
    last.op = "stats" =>
        /\ StatsCounts
        /\ \A i \in DOMAIN last.out.companies : \A j \in DOMAIN last.out.companies :
            i < j => StrLess(last.out.companies[i], last.out.companies[j])

\* four records, one without company and two of the same company, gave two
\* companies
C15_Witness ==
    /\ last.op = "stats"
    /\ Len(prev) = 4
    /\ \E i \in DOMAIN prev : prev[i].company = <<>>
    /\ Cardinality({i \in DOMAIN prev : prev[i].company = sTc}) = 2
    /\ last.out.total_contacts = 4
    /\ last.out.unique_companies = 2
    /\ last.out.companies = <<sTc, sLowerAb>>

====
